---------------------------- MODULE Spec2Model ----------------------------
(***************************************************************************)
(* Model of the IoT gateway: the binary frame codec (protocol.py), the     *)
(* per-connection handler, the dispatcher and the command broadcaster      *)
(* (server.py), the persistence sink (database.py) and the GUI thread's    *)
(* control request (gui.py).                                               *)
(*                                                                         *)
(* Representation of integers wider than TLC's 32-bit integers:            *)
(*   - a 32-bit unsigned value is a record [hi, lo] of two 16-bit halves   *)
(*     (value = hi * 65536 + lo);                                          *)
(*   - a 64-bit unsigned value is a sequence of four 16-bit limbs, most    *)
(*     significant first.                                                  *)
(* Byte strings are sequences over 0..255.                                 *)
(***************************************************************************)
EXTENDS Integers, Sequences, FiniteSets, TLC

(***************************************************************************)
(* config.py                                                               *)
(***************************************************************************)
PROTOCOL_HEADER == 43605
\* 0xAA55

PROTOCOL_VERSION == 18
\* 0x12

CMD_HEARTBEAT == 1

CMD_SENSOR_DATA == 16

CMD_LED_CONTROL == 128

(***************************************************************************)
(* Bit and byte helpers (Python int operators, struct.pack/unpack).        *)
(***************************************************************************)
RECURSIVE Xor(_, _)
\* a ^ b on non-negative integers
Xor(a, b) ==
    IF a = 0 THEN b
    ELSE IF b = 0 THEN a
    ELSE LET bit(k) == (((a \div k) % 2) + ((b \div k) % 2)) % 2
         IN  bit(1) + 2 * bit(2) + 4 * bit(4) + 8 * bit(8)
             + 16 * Xor(a \div 16, b \div 16)

\* data[i:j] with Python's 0-based, end-exclusive, clamped slice bounds
Slice(data, i, j) ==
    LET hi == IF j > Len(data) THEN Len(data) ELSE j
    IN  IF i >= hi THEN << >> ELSE SubSeq(data, i + 1, hi)

\* struct.pack("<H", v)
PackU16(v) == << v % 256, (v \div 256) % 256 >>

\* a 32-bit value packed most significant byte first
PackU32BigEndian(d) ==
    << d.hi \div 256, d.hi % 256, d.lo \div 256, d.lo % 256 >>

\* struct.pack("<I", d)
PackU32(d) == PackU16(d.lo) \o PackU16(d.hi)

\* a 16-bit value read most significant byte first
UnpackU16BigEndian(b) == 256 * b[1] + b[2]

\* struct.unpack("<H", b)
UnpackU16(b) == b[1] + 256 * b[2]

\* struct.unpack("<I", b)
UnpackU32(b) == [hi |-> b[3] + 256 * b[4], lo |-> b[1] + 256 * b[2]]

\* struct.unpack("<Q", b): four 16-bit limbs, most significant first
UnpackU64(b) ==
    << b[7] + 256 * b[8], b[5] + 256 * b[6], b[3] + 256 * b[4], b[1] + 256 * b[2] >>

HexDigits == << "0", "1", "2", "3", "4", "5", "6", "7",
                "8", "9", "a", "b", "c", "d", "e", "f" >>

\* bytes.hex(): two lower-case hex digits per byte
RECURSIVE BytesHex(_)
BytesHex(data) ==
    IF data = << >> THEN << >>
    ELSE << HexDigits[(data[1] \div 16) + 1], HexDigits[(data[1] % 16) + 1] >>
         \o BytesHex(Tail(data))

UpperDigits == << "0", "1", "2", "3", "4", "5", "6", "7",
                  "8", "9", "A", "B", "C", "D", "E", "F" >>

\* bytes.hex().upper()
RECURSIVE BytesHexUpper(_)
BytesHexUpper(data) ==
    IF data = << >> THEN << >>
    ELSE IF Len(data) = 1
    THEN << UpperDigits[(data[1] \div 16) + 1], UpperDigits[(data[1] % 16) + 1] >>
    ELSE LET mid == Len(data) \div 2
         IN  BytesHexUpper(SubSeq(data, 1, mid))
             \o BytesHexUpper(SubSeq(data, mid + 1, Len(data)))

RECURSIVE StripZeros(_)
StripZeros(ds) ==
    IF Len(ds) > 1 /\ ds[1] = "0" THEN StripZeros(Tail(ds)) ELSE ds

\* hex(v) of a 16-bit value, without the "0x" prefix
HexU16(v) == StripZeros(BytesHex(<< v \div 256, v % 256 >>))

\* hex(d) of a 32-bit value, without the "0x" prefix
HexU32(d) ==
    StripZeros(BytesHex(<< d.hi \div 256, d.hi % 256, d.lo \div 256, d.lo % 256 >>))

(***************************************************************************)
(* protocol.py: IotProtocol                                                *)
(***************************************************************************)
\* the inner "for _ in range(8)" loop of calc_crc
RECURSIVE CrcShift(_, _)
CrcShift(crc, n) ==
    IF n = 0 THEN crc
    ELSE IF crc % 2 # 0
         THEN CrcShift(Xor(crc \div 2, 40961), n - 1)
         ELSE CrcShift(crc \div 2, n - 1)

\* the outer "for pos in data" loop of calc_crc, from register value crc; the
\* register is a 16-bit value after every byte.  The loop over data is the
\* loop over its first half followed by the loop over its second half.
RECURSIVE CrcFrom(_, _)
CrcFrom(crc, data) ==
    IF data = << >> THEN crc
    ELSE IF Len(data) = 1 THEN CrcShift(Xor(crc, data[1]), 8)
    ELSE LET mid  == Len(data) \div 2
             next == CrcFrom(crc, SubSeq(data, 1, mid))
         IN  IF next \in 0..65535
             THEN CrcFrom(next, SubSeq(data, mid + 1, Len(data)))
             ELSE next

\* the checksum with the register starting at 0
CalcCrcZeroInit(data) == CrcFrom(0, data)

calc_crc(data) == CrcFrom(65535, data)

\* the dictionary parse_packet returns on success
Parsed(cmd, seq, dev_id, payload, data) ==
    [ok |-> TRUE, cmd |-> cmd, seq |-> seq, dev_id |-> dev_id,
     payload |-> payload, raw_hex |-> BytesHexUpper(data), msg |-> << "OK" >>]

\* (None, msg) of parse_packet
Rejected(msg) ==
    [ok |-> FALSE, cmd |-> 0, seq |-> 0, dev_id |-> [hi |-> 0, lo |-> 0],
     payload |-> << >>, raw_hex |-> << >>, msg |-> msg]

\* parse_packet without the comparison of the total length
ParsePacketNoLengthCheck(data) ==
    IF Len(data) < 13 THEN Rejected(<< "Length too short" >>)
    ELSE
      LET head    == UnpackU16(Slice(data, 0, 2))
          pay_len == UnpackU16(Slice(data, 9, 11))
          recv    == Slice(data, 11 + pay_len, Len(data))
          crc     == calc_crc(Slice(data, 0, Len(data) - 2))
      IN  IF head # PROTOCOL_HEADER
          THEN Rejected(<< "Invalid Header", HexU16(head) >>)
          ELSE IF Len(recv) # 2 \/ UnpackU16(recv) # crc
          THEN Rejected(<< "CRC Error", << >>, HexU16(crc) >>)
          ELSE Parsed(data[4], data[5], UnpackU32(Slice(data, 5, 9)),
                      Slice(data, 11, 11 + pay_len), data)

\* parse_packet without the comparison of the checksums
ParsePacketNoCrcCheck(data) ==
    IF Len(data) < 13 THEN Rejected(<< "Length too short" >>)
    ELSE
      LET head    == UnpackU16(Slice(data, 0, 2))
          pay_len == UnpackU16(Slice(data, 9, 11))
      IN  IF head # PROTOCOL_HEADER
          THEN Rejected(<< "Invalid Header", HexU16(head) >>)
          ELSE IF Len(data) # 11 + pay_len + 2
          THEN Rejected(<< "Length Mismatch", Len(data), 11 + pay_len + 2 >>)
          ELSE Parsed(data[4], data[5], UnpackU32(Slice(data, 5, 9)),
                      Slice(data, 11, 11 + pay_len), data)

parse_packet(data) ==
    IF Len(data) < 13 THEN Rejected(<< "Length too short" >>)
    ELSE
      LET head    == UnpackU16(Slice(data, 0, 2))
          cmd     == data[4]
          seq     == data[5]
          dev_id  == UnpackU32(Slice(data, 5, 9))
          pay_len == UnpackU16(Slice(data, 9, 11))
          expected_len == 11 + pay_len + 2
      IN  IF head # PROTOCOL_HEADER
          THEN Rejected(<< "Invalid Header", HexU16(head) >>)
          ELSE IF Len(data) # expected_len
          THEN Rejected(<< "Length Mismatch", Len(data), expected_len >>)
          ELSE
            LET payload  == Slice(data, 11, 11 + pay_len)
                recv_crc == UnpackU16(Slice(data, 11 + pay_len, Len(data)))
                crc      == calc_crc(Slice(data, 0, Len(data) - 2))
            IN  IF recv_crc # crc
                THEN Rejected(<< "CRC Error", HexU16(recv_crc), HexU16(crc) >>)
                ELSE Parsed(cmd, seq, dev_id, payload, data)

\* header + payload + CRC, as build_control_packet assembles them
EncodeFrame(cmd, seq, dev_id, payload) ==
    LET header == PackU16(PROTOCOL_HEADER) \o << PROTOCOL_VERSION, cmd, seq >>
                  \o PackU32(dev_id) \o PackU16(Len(payload))
        packet == header \o payload
    IN  packet \o PackU16(calc_crc(packet))

\* the control frame with the state byte inverted
BuildControlPacketInverted(dev_id, led_status) ==
    EncodeFrame(128, 1, dev_id, << IF led_status THEN 0 ELSE 1 >>)

build_control_packet(dev_id, led_status) ==
    EncodeFrame(128, 1, dev_id, << IF led_status THEN 1 ELSE 0 >>)

(***************************************************************************)
(* decode_sensor_payload.  A decoded and rounded float is a record         *)
(*   [kind |-> "num", neg, tenths]   the value (-1)^neg * tenths / 10      *)
(*   [kind |-> "int", neg, m, k]     the integer (-1)^neg * m * 2^k, which *)
(*                                   round(x, 1) leaves unchanged          *)
(*   [kind |-> "inf", neg], [kind |-> "nan"]                               *)
(***************************************************************************)
RECURSIVE Pow2(_)
Pow2(n) == IF n = 0 THEN 1 ELSE 2 * Pow2(n - 1)

FloatVal(kind, neg, tenths, m, k) ==
    [kind |-> kind, neg |-> neg, tenths |-> tenths, m |-> m, k |-> k]

\* round(x, 1) of x = m * 2^k (m < 2^24): the exact decimal value rounded to
\* one decimal place, ties to even (Python's correctly rounded float round)
RoundTenths(neg, m, k) ==
    IF k >= 3 THEN FloatVal("int", neg, 0, m, k)
    ELSE IF k >= 0 THEN FloatVal("num", neg, 10 * m * Pow2(k), 0, 0)
    ELSE IF 0 - k >= 29 THEN FloatVal("num", neg, 0, 0, 0)
    ELSE
      LET d == Pow2(0 - k)
          q == (10 * m) \div d
          r == (10 * m) % d
          t == IF 2 * r > d THEN q + 1
               ELSE IF 2 * r < d THEN q
               ELSE IF q % 2 = 0 THEN q ELSE q + 1
      IN  FloatVal("num", neg, t, 0, 0)

\* round(struct.unpack("<f", b)[0], 1)
RoundFloat32(b) ==
    LET neg  == b[4] >= 128
        e    == (b[4] % 128) * 2 + (b[3] \div 128)
        frac == (b[3] % 128) * 65536 + b[2] * 256 + b[1]
    IN  IF e = 255
        THEN IF frac = 0 THEN FloatVal("inf", neg, 0, 0, 0)
                         ELSE FloatVal("nan", FALSE, 0, 0, 0)
        ELSE IF e = 0 THEN FloatVal("num", neg, 0, 0, 0)
        ELSE RoundTenths(neg, 8388608 + frac, e - 150)

\* None of decode_sensor_payload
NoSensorData ==
    [ok |-> FALSE, temp |-> FloatVal("nan", FALSE, 0, 0, 0),
     hum |-> FloatVal("nan", FALSE, 0, 0, 0),
     light |-> [hi |-> 0, lo |-> 0], ts |-> << 0, 0, 0, 0 >>]

\* a decoder that also accepts the 16-byte payload, read as if it were
\* followed by four zero bytes
DecodeSensorPayloadLegacy(payload) ==
    IF Len(payload) \notin {16, 20} THEN NoSensorData
    ELSE LET p == SubSeq(payload \o << 0, 0, 0, 0 >>, 1, 20)
         IN  [ok    |-> TRUE,
              temp  |-> RoundFloat32(Slice(p, 0, 4)),
              hum   |-> RoundFloat32(Slice(p, 4, 8)),
              light |-> UnpackU32(Slice(p, 8, 12)),
              ts    |-> UnpackU64(Slice(p, 12, 20))]

decode_sensor_payload(payload) ==
    IF Len(payload) # 20 THEN NoSensorData
    ELSE [ok    |-> TRUE,
          temp  |-> RoundFloat32(Slice(payload, 0, 4)),
          hum   |-> RoundFloat32(Slice(payload, 4, 8)),
          light |-> UnpackU32(Slice(payload, 8, 12)),
          ts    |-> UnpackU64(Slice(payload, 12, 20))]

(***************************************************************************)
(* datetime.datetime.fromtimestamp(ts / 1000.0).strftime(...)              *)
(***************************************************************************)
\* a < b on 64-bit values given as limbs
LimbsLess(a, b) ==
    \E i \in 1..4 : a[i] < b[i] /\ \A j \in 1..(i - 1) : a[j] = b[j]

\* 3000-12-31 00:00:00 UTC in milliseconds: below it fromtimestamp succeeds on
\* every platform and in every time zone
TsAlwaysOk == << 0, 7575, 11479, 45056 >>

\* 10000-01-02 00:00:00 UTC in milliseconds: from it on fromtimestamp raises
\* ("year out of range") in every time zone
TsAlwaysRaises == << 0, 58999, 55110, 14336 >>

\* the outcomes of fromtimestamp(ts / 1000.0): TRUE = raises.  Between the
\* two thresholds the outcome depends on the platform and the time zone.
FromTimestampRaises(ts) ==
    IF LimbsLess(ts, TsAlwaysOk) THEN {FALSE}
    ELSE IF LimbsLess(ts, TsAlwaysRaises) THEN {FALSE, TRUE}
    ELSE {TRUE}

\* ts // 1000 by long division over the limbs; the calendar second that
\* "%Y-%m-%d %H:%M:%S" renders is identified by its epoch second
RECURSIVE DivLimbs(_, _, _)
DivLimbs(limbs, rem, d) ==
    IF limbs = << >> THEN << >>
    ELSE LET cur == rem * 65536 + limbs[1]
         IN  << cur \div d >> \o DivLimbs(Tail(limbs), cur % d, d)

DeviceTimeStr(ts) == DivLimbs(ts, 0, 1000)

(***************************************************************************)
(* database.py: save_sensor_data(dev_id, temperature, humidity,            *)
(* device_time).  A call is the sequence of its positional arguments; the  *)
(* outcome of the INSERT (db_ok) is the environment's.                     *)
(***************************************************************************)
SaveArity == 4

save_sensor_data(args, db_ok) ==
    IF Len(args) # SaveArity
    THEN [raised |-> "TypeError", success |-> FALSE, error |-> "TypeError",
          row |-> << >>]
    ELSE IF db_ok
    THEN [raised |-> "no", success |-> TRUE, error |-> "None",
          row |-> << args[1], args[2], args[3], args[4] >>]
    ELSE [raised |-> "no", success |-> FALSE, error |-> "sqlite3.Error",
          row |-> << >>]

(***************************************************************************)
(* server.py: IoTServer.process_data.  The result is what one call does:   *)
(* the log lines, the calls of save_sensor_data (argument sequences), the  *)
(* rows the sink stored, the display updates, and whether an exception     *)
(* left process_data.                                                      *)
(***************************************************************************)
\* the server is constructed by the GUI with update_display_callback set
update_display_callback == TRUE

Outcome(raised, logs, saves, answer, rows, display) ==
    [raised |-> raised, logs |-> logs, saves |-> saves, answer |-> answer,
     rows |-> rows, display |-> display]

\* what process_data has done when it did nothing
NoOutcome == Outcome(FALSE, << >>, << >>, << >>, << >>, << >>)

\* the CMD_SENSOR_DATA branch letting a failure of the sink propagate
ReportSensorDataDbFatal(dev_id, sd, db_ok, ts_raises) ==
    IF ts_raises \/ ~db_ok
    THEN Outcome(TRUE, << >>, << >>, << FALSE, "sqlite3.Error" >>, << >>, << >>)
    ELSE LET args4 == << dev_id, sd.temp, sd.hum, DeviceTimeStr(sd.ts) >>
         IN  Outcome(FALSE,
                     << << "report", sd.temp, sd.hum, sd.light,
                           DeviceTimeStr(sd.ts) >> >>,
                     << args4 >>, << TRUE, "None" >>, << args4 >>,
                     << << sd.temp, sd.hum, sd.light >> >>)

\* the CMD_SENSOR_DATA branch once the payload has decoded
ReportSensorData(dev_id, sd, db_ok, ts_raises) ==
    IF ts_raises THEN Outcome(TRUE, << >>, << >>, << >>, << >>, << >>)
    ELSE
      LET device_time_str == DeviceTimeStr(sd.ts)
          args5  == << dev_id, sd.temp, sd.hum, device_time_str, sd.light >>
          args4  == << dev_id, sd.temp, sd.hum, device_time_str >>
          first  == save_sensor_data(args5, db_ok)
          res    == IF first.raised = "TypeError"
                    THEN save_sensor_data(args4, db_ok) ELSE first
          saves  == IF first.raised = "TypeError" THEN << args5, args4 >>
                    ELSE << args5 >>
          rows   == IF res.row = << >> THEN << >> ELSE << res.row >>
          dblog  == IF res.success THEN << >>
                    ELSE << << "DB error", res.error >> >>
          shown  == IF update_display_callback
                    THEN << << sd.temp, sd.hum, sd.light >> >> ELSE << >>
      IN  IF res.raised # "no"
          THEN Outcome(TRUE, << >>, saves, << >>, << >>, << >>)
          ELSE Outcome(FALSE,
                       dblog \o << << "report", sd.temp, sd.hum, sd.light,
                                      device_time_str >> >>,
                       saves, << res.success, res.error >>, rows, shown)

process_data(data, db_ok, ts_raises) ==
    LET dev_id == HexU32(data.dev_id)
    IN  IF data.cmd = CMD_HEARTBEAT
        THEN Outcome(FALSE, << << "heartbeat", dev_id >> >>,
                     << >>, << >>, << >>, << >>)
        ELSE IF data.cmd = CMD_SENSOR_DATA
        THEN LET sd == decode_sensor_payload(data.payload)
             IN  IF sd.ok
                 THEN ReportSensorData(dev_id, sd, db_ok, ts_raises)
                 ELSE Outcome(FALSE,
                              << << "payload decode failed", Len(data.payload) >> >>,
                              << >>, << >>, << >>, << >>)
        ELSE NoOutcome

(***************************************************************************)
(* Bounds of the model and the inbound messages the devices send.          *)
(***************************************************************************)
NumSessions == 2

MaxBroadcasts == 2

Sessions == 1..NumSessions

\* the device id the GUI passes to broadcast_command, 0x01020304
GuiDeviceId == [hi |-> 258, lo |-> 772]

DeviceA == [hi |-> 43981, lo |-> 4660]

\* temp 25.34, hum 60.55, light 1234, ts 1700000000000
PayloadNormal ==
    << 82, 184, 202, 65, 51, 51, 114, 66, 210, 4, 0, 0,
       0, 104, 229, 207, 139, 1, 0, 0 >>

\* temp NaN, hum 100.0, light 2^32 - 1, ts 2^64 - 1
PayloadOverflow ==
    << 0, 0, 192, 127, 0, 0, 200, 66, 255, 255, 255, 255,
       255, 255, 255, 255, 255, 255, 255, 255 >>

\* temp -3.25, hum 0.05, light 0, ts 4102444800000 (year 2100)
PayloadTies ==
    << 0, 0, 80, 192, 205, 204, 76, 61, 0, 0, 0, 0,
       0, 16, 10, 46, 187, 3, 0, 0 >>

\* temp 0.0, hum 99.95, light 4095, ts 0
PayloadEpoch ==
    << 0, 0, 0, 0, 102, 230, 199, 66, 255, 15, 0, 0,
       0, 0, 0, 0, 0, 0, 0, 0 >>

\* temp 21.05, hum 45.0, light 70000, ts 300000000000000 (after year 9999)
PayloadYear11476 ==
    << 102, 102, 168, 65, 0, 0, 52, 66, 112, 17, 1, 0,
       0, 192, 110, 49, 217, 16, 1, 0 >>

\* the legacy 16-byte sensor payload
PayloadLegacy == << 25, 0, 0, 0, 60, 0, 0, 0, 1, 2, 3, 4, 5, 6, 7, 8 >>

Text == [binary |-> FALSE, data |-> << >>]

Binary(data) == [binary |-> TRUE, data |-> data]

\* a frame of n bytes with its last byte changed
Corrupt(data) ==
    [data EXCEPT ![Len(data)] = (data[Len(data)] + 1) % 256]

\* the messages a device may send (async for message in websocket)
Inbound ==
    << Text,
       Binary(<< 85, 170, 18, 1, 0, 1, 2, 3, 4, 0, 0, 0 >>),
       Binary(<< 85, 171 >> \o Tail(Tail(EncodeFrame(CMD_HEARTBEAT, 7, DeviceA, << >>)))),
       Binary(EncodeFrame(CMD_HEARTBEAT, 7, DeviceA, << >>) \o << 0 >>),
       Binary(Corrupt(EncodeFrame(CMD_SENSOR_DATA, 2, DeviceA, PayloadNormal))),
       Binary(EncodeFrame(CMD_HEARTBEAT, 7, DeviceA, << >>)),
       Binary(build_control_packet(GuiDeviceId, TRUE)),
       Binary(EncodeFrame(255, 0, DeviceA, << 1, 2, 3 >>)),
       Binary(EncodeFrame(CMD_SENSOR_DATA, 2, DeviceA, PayloadNormal)),
       Binary(EncodeFrame(CMD_SENSOR_DATA, 3, GuiDeviceId, PayloadEpoch)),
       Binary(EncodeFrame(CMD_SENSOR_DATA, 4, DeviceA, PayloadTies)),
       Binary(EncodeFrame(CMD_SENSOR_DATA, 5, DeviceA, PayloadOverflow)),
       Binary(EncodeFrame(CMD_SENSOR_DATA, 6, DeviceA, PayloadLegacy)),
       Binary(EncodeFrame(CMD_SENSOR_DATA, 8, GuiDeviceId, << >>)),
       Binary(EncodeFrame(CMD_SENSOR_DATA, 9, DeviceA, PayloadYear11476)) >>

\* parse_packet applied to each inbound binary message
ParseTable ==
    [i \in DOMAIN Inbound |->
        IF Inbound[i].binary THEN parse_packet(Inbound[i].data)
        ELSE Rejected(<< "text" >>)]

\* "await self.process_data(result)" for each inbound message that parses,
\* each outcome of the INSERT and each outcome of fromtimestamp
HandleTable ==
    [i \in DOMAIN Inbound |->
        [db_ok \in BOOLEAN |->
            [ts_raises \in BOOLEAN |->
                IF ParseTable[i].ok
                THEN process_data(ParseTable[i], db_ok, ts_raises)
                ELSE NoOutcome]]]

(***************************************************************************)
(* State.                                                                  *)
(*   loop              IoTServer.loop: "none", "created" or "running"      *)
(*   connected_clients IoTServer.connected_clients                         *)
(*   handler           the position of each connection's ws_handler:       *)
(*                     "idle" (not accepted), "open" (in the receive       *)
(*                     loop), "done" (returned)                            *)
(*   tasks             the broadcast_command coroutines submitted so far   *)
(*   last              what the latest ws_handler step did                 *)
(*   touched           which thread has read or changed the registry       *)
(*                     ("registry") or called send on a session ("socket") *)
(*   gui               the outcome of the latest send_command              *)
(*   codec             a call of the frame codec on its own: the arguments *)
(*                     and the results of build_control_packet and         *)
(*                     parse_packet                                        *)
(*   stream            the messages the transport has delivered, in the    *)
(*                     order of their arrival (each with its connection),  *)
(*                     and the arrival numbers of the messages the         *)
(*                     handlers have processed, in the order of processing *)
(***************************************************************************)
VARIABLES loop, connected_clients, handler, tasks, last, touched, gui, codec,
          stream

vars == << loop, connected_clients, handler, tasks, last, touched, gui, codec,
          stream >>

Event(ev, ws, msg, called, logs, out) ==
    [ev |-> ev, ws |-> ws, msg |-> msg, called |-> called, logs |-> logs,
     out |-> out]

\* no call of the codec on its own
NoCodec ==
    [stage |-> "none", dev_id |-> [hi |-> 0, lo |-> 0], led_status |-> FALSE,
     packet |-> << >>, parsed |-> Rejected(<< >>), crc |-> 0]

\* no message has arrived
NoStream == [arrived |-> << >>, handled |-> << >>]

Init ==
    /\ loop = "none"
    /\ connected_clients = {}
    /\ handler = [s \in Sessions |-> "idle"]
    /\ tasks = << >>
    /\ last = Event("init", 0, 0, FALSE, << >>, NoOutcome)
    /\ touched = {}
    /\ gui = "idle"
    /\ codec = NoCodec
    /\ stream = NoStream

(***************************************************************************)
(* gui.py: _run_server_thread                                              *)
(***************************************************************************)
\* self.server.loop = asyncio.new_event_loop()
NewEventLoop ==
    /\ loop = "none"
    /\ loop' = "created"
    /\ UNCHANGED << connected_clients, handler, tasks, last, touched, gui, codec,
                   stream >>

\* self.server.loop.run_until_complete(self.server.start())
RunServer ==
    /\ loop = "created"
    /\ loop' = "running"
    /\ UNCHANGED << connected_clients, handler, tasks, last, touched, gui, codec,
                   stream >>

(***************************************************************************)
(* server.py: IoTServer.ws_handler, one task per connection on the loop.   *)
(* Connections are numbered in the order they are accepted.                *)
(***************************************************************************)
Accept(ws) ==
    /\ loop = "running"
    /\ handler[ws] = "idle"
    /\ \A s \in Sessions : s < ws => handler[s] # "idle"
    /\ connected_clients' = connected_clients \cup {ws}
    /\ handler' = [handler EXCEPT ![ws] = "open"]
    /\ last' = Event("accept", ws, 0, FALSE, << << "new device", ws >> >>, NoOutcome)
    /\ touched' = touched \cup {<< "loop", "registry" >>}
    /\ UNCHANGED << loop, tasks, gui, codec,
                   stream >>

\* the except/finally of ws_handler: how the handler leaves the receive loop
\* with exception exc ("none" = the iteration ended normally)
LeaveLogs(ws, exc) ==
    IF exc = "ConnectionClosed" THEN << << "device disconnected", ws >> >>
    ELSE IF exc = "Exception" THEN << << "connection error" >> >>
    ELSE << >>

\* a finally clause that leaves the registry as it is
UnregisterNothing(clients, ws) == clients

\* the finally clause
Unregister(clients, ws) == clients \ {ws}

\* the body of "async for message in websocket" for message Inbound[i]:
\* whether process_data was called, the lines logged, what process_data did
\* and whether an exception left the body
Handled(called, logs, out) ==
    [called |-> called, logs |-> logs, out |-> out, raised |-> out.raised]

\* the loop body with a parse failure raised instead of logged
HandleMessageRejectRaises(i, db_ok, ts_raises) ==
    IF Inbound[i].binary /\ ~ParseTable[i].ok
    THEN [called |-> FALSE, logs |-> << >>, out |-> NoOutcome, raised |-> TRUE]
    ELSE IF ~Inbound[i].binary
    THEN Handled(FALSE, << << "text ignored" >> >>, NoOutcome)
    ELSE Handled(TRUE, HandleTable[i][db_ok][ts_raises].logs,
                 HandleTable[i][db_ok][ts_raises])

\* the loop body handing text messages to parse_packet like binary ones
HandleMessageTextParsed(i, db_ok, ts_raises) ==
    LET result == parse_packet(Inbound[i].data)
    IN  IF ~result.ok
        THEN Handled(FALSE,
                     << << "parse failed", result.msg,
                           BytesHex(Inbound[i].data) >> >>,
                     NoOutcome)
        ELSE Handled(TRUE, HandleTable[i][db_ok][ts_raises].logs,
                     HandleTable[i][db_ok][ts_raises])

HandleMessage(i, db_ok, ts_raises) ==
    LET message == Inbound[i]
        result  == ParseTable[i]
    IN  IF ~message.binary
        THEN Handled(FALSE, << << "text ignored" >> >>, NoOutcome)
        ELSE IF ~result.ok
        THEN Handled(FALSE,
                     << << "parse failed", result.msg, BytesHex(message.data) >> >>,
                     NoOutcome)
        ELSE Handled(TRUE, HandleTable[i][db_ok][ts_raises].logs,
                     HandleTable[i][db_ok][ts_raises])

\* one iteration of the receive loop; process_data does not await, so the
\* iteration is one step of the loop.  An exception leaves the loop through
\* "except Exception" and the finally clause.
ReceiveMessage(ws, i, db_ok, ts_raises) ==
    /\ handler[ws] = "open"
    /\ LET h == HandleMessage(i, db_ok, ts_raises)
       IN  IF h.raised
           THEN /\ last' = Event("recv", ws, i, h.called,
                                 h.logs \o LeaveLogs(ws, "Exception"), h.out)
                /\ connected_clients' = Unregister(connected_clients, ws)
                /\ handler' = [handler EXCEPT ![ws] = "done"]
                /\ touched' = touched \cup {<< "loop", "registry" >>}
           ELSE /\ last' = Event("recv", ws, i, h.called, h.logs, h.out)
                /\ UNCHANGED << connected_clients, handler, touched >>
    /\ UNCHANGED << loop, tasks, gui, codec >>

Receive(ws, i, db_ok, ts_raises) ==
    /\ ReceiveMessage(ws, i, db_ok, ts_raises)
    /\ UNCHANGED stream

\* the outcomes fromtimestamp can have on the timestamp of message i
TsOutcomes ==
    [i \in DOMAIN Inbound |->
        LET r == ParseTable[i]
        IN  IF r.ok /\ r.cmd = CMD_SENSOR_DATA /\ Len(r.payload) = 20
            THEN FromTimestampRaises(decode_sensor_payload(r.payload).ts)
            ELSE {FALSE}]

\* the transport ends the receive loop: ConnectionClosed, a normal end of the
\* iteration ("none"), another exception of the transport, or cancellation
Leave(ws, exc) ==
    /\ handler[ws] = "open"
    /\ connected_clients' = Unregister(connected_clients, ws)
    /\ handler' = [handler EXCEPT ![ws] = "done"]
    /\ last' = Event("leave", ws, 0, FALSE, LeaveLogs(ws, exc), NoOutcome)
    /\ touched' = touched \cup {<< "loop", "registry" >>}
    /\ UNCHANGED << loop, tasks, gui, codec,
                   stream >>

(***************************************************************************)
(* gui.py: IoTServerGUI.send_command, on the GUI thread.                   *)
(***************************************************************************)
\* the coroutine object broadcast_command(dev_id, led_status): created, not
\* yet run by any thread
Coroutine(dev_id, led_status) ==
    [pc |-> "created", thread |-> "none", dev_id |-> dev_id,
     led_status |-> led_status, packet |-> << >>, start |-> {}, size |-> 0,
     gone |-> {}, sends |-> {}, cur |-> 0, results |-> {}, warned |-> FALSE,
     error |-> "none", version |-> 0, seen |-> 0, order |-> << >>]

\* the coroutine run by the thread that calls
RunInCallerThread(coro) ==
    [coro EXCEPT !.pc = "queued", !.thread = "gui"]

\* asyncio.run_coroutine_threadsafe(coro, loop): the coroutine becomes a task
\* of the loop and every step of it runs on the loop's thread
run_coroutine_threadsafe(coro) ==
    [coro EXCEPT !.pc = "queued", !.thread = "loop"]

send_command(is_on) ==
    /\ Len(tasks) < MaxBroadcasts
    /\ IF loop # "running"
       THEN /\ gui' = "warned"
            /\ UNCHANGED tasks
       ELSE /\ gui' = "submitted"
            /\ tasks' = Append(tasks,
                   run_coroutine_threadsafe(Coroutine(GuiDeviceId, is_on)))
    /\ UNCHANGED << loop, connected_clients, handler, last, touched, codec,
                   stream >>

(***************************************************************************)
(* server.py: IoTServer.broadcast_command, a task of the loop.  Its only   *)
(* await is "await ws.send(packet)", so its steps are                      *)
(*   BroadcastStart  from the call to the first await: the empty check,    *)
(*                   build_control_packet, iter() of the registry, the     *)
(*                   first next() and the call of ws.send                  *)
(*   BroadcastSent   from the return (or exception) of ws.send to the next *)
(*                   await or to the end: the log line, next() and the     *)
(*                   call of ws.send                                       *)
(* A task records the registry (start, size) and the connections already   *)
(* closed (gone) when it began, the sends it called and their results.     *)
(* It also records how many times the registry had changed when it began   *)
(* (version) and at its latest next() (seen), and the sessions it called   *)
(* send on, in the order of the calls, each with the number of the call    *)
(* among all calls of send (order).  A frame is handed to the connection   *)
(* when send is called, so                                                 *)
(* a session receives the frames in the order of these numbers.            *)
(***************************************************************************)
\* what the for statement iterates: the registry itself
IterationTarget(clients, start) == clients

\* the sessions a broadcast has called send on
Attempted(t) == {x.ws : x \in t.sends}

\* the number of changes of the registry so far: every accepted connection
\* was added once and every finished one was removed once
RegistryVersion(h) ==
    Cardinality({ws \in Sessions : h[ws] # "idle"})
    + Cardinality({ws \in Sessions : h[ws] = "done"})

\* next() of the set iterator followed by the loop body up to the await, as
\* the set of tasks it can lead to.  next() raises RuntimeError ("Set changed
\* size during iteration") when the size differs from the size at iter();
\* otherwise it yields the next used slot of the hash table, or stops.  On
\* an unchanged set it yields each member once.  After the set was changed
\* and brought back to its size the slots left to visit may hold any of the
\* members not yet visited, or none; and when it was changed since the
\* previous next() (seen) the table may have been rebuilt, and they may hold
\* any member.
IterationNext(t, clients) ==
    LET target == IterationTarget(clients, t.start)
        now    == RegistryVersion(handler)
        rest   == IF target = t.start \/ t.seen = now
                  THEN target \ Attempted(t) ELSE target
    IN  IF Cardinality(target) # t.size
        THEN {[t EXCEPT !.pc = "failed", !.error = "RuntimeError", !.seen = now]}
        ELSE {[t EXCEPT !.pc = "sending", !.cur = ws, !.seen = now,
                        !.sends = @ \cup {[ws |-> ws, data |-> t.packet]}] :
                  ws \in rest}
             \cup (IF rest = {} \/ target # t.start
                   THEN {[t EXCEPT !.pc = "done", !.seen = now]} ELSE {})

\* the number of calls of send made so far by the broadcasts ts
RECURSIVE SendCalls(_)
SendCalls(ts) ==
    IF ts = << >> THEN 0 ELSE Len(Head(ts).order) + SendCalls(Tail(ts))

\* task t after a step: the call of send it has made gets number n
Numbered(t, n) ==
    IF t.pc = "sending" THEN [t EXCEPT !.order = Append(@, << t.cur, n >>)]
    ELSE t

\* A set that has not changed is iterated in the same order every time: when
\* the registry has not changed since task k and another task began, the
\* session t1 (task k after next()) visits at a position is the one the
\* other task has visited at that position.
SameTableOrder(k, t1) ==
    (t1.pc = "sending" /\ t1.version = RegistryVersion(handler)) =>
        \A j \in DOMAIN tasks \ {k} :
            (/\ tasks[j].version = t1.version
             /\ Len(tasks[j].order) > Len(t1.order)) =>
                tasks[j].order[Len(t1.order) + 1][1] = t1.cur

\* the number of the call of send task t is suspended in
Ticket(t) == t.order[Len(t.order)][2]

\* sends awaited on one connection returning in any order
SendReturnsInAnyOrder(k) == k \in DOMAIN tasks

\* the sends awaited on one connection return in the order they were
\* called: the tasks waiting to write on a connection are resumed first
\* come, first served
SendReturnsInOrder(k) ==
    \A j \in DOMAIN tasks \ {k} :
        (tasks[j].pc = "sending" /\ tasks[j].cur = tasks[k].cur) =>
            Ticket(tasks[k]) < Ticket(tasks[j])

\* the operations a step ending in task t has performed
Touches(t) ==
    {<< t.thread, "registry" >>}
    \cup (IF t.pc = "sending" THEN {<< t.thread, "socket" >>} ELSE {})

BroadcastStart(k) ==
    /\ k \in DOMAIN tasks
    /\ tasks[k].pc = "queued"
    /\ \A j \in 1..(k - 1) : tasks[j].pc # "queued"
    /\ LET t == [tasks[k] EXCEPT
                    !.start = connected_clients,
                    !.size = Cardinality(connected_clients),
                    !.gone = {s \in Sessions : handler[s] = "done"},
                    !.version = RegistryVersion(handler),
                    !.seen = RegistryVersion(handler)]
       IN  IF connected_clients = {}
           THEN /\ tasks' = [tasks EXCEPT ![k] =
                                [t EXCEPT !.pc = "done", !.warned = TRUE]]
                /\ touched' = touched \cup {<< t.thread, "registry" >>}
           ELSE \E t1 \in IterationNext(
                              [t EXCEPT !.packet = build_control_packet(
                                                       t.dev_id, t.led_status)],
                              connected_clients) :
                    /\ SameTableOrder(k, t1)
                    /\ tasks' = [tasks EXCEPT ![k] =
                                     Numbered(t1, SendCalls(tasks) + 1)]
                    /\ touched' = touched \cup Touches(t1)
    /\ UNCHANGED << loop, connected_clients, handler, last, gui, codec,
                   stream >>

\* an except clause that also unregisters the session whose send failed
BroadcastSentDropsFailed(k, ok) ==
    /\ k \in DOMAIN tasks
    /\ tasks[k].pc = "sending"
    /\ SendReturnsInOrder(k)
    /\ ok => handler[tasks[k].cur] = "open"
    /\ connected_clients' = IF ok THEN connected_clients
                            ELSE connected_clients \ {tasks[k].cur}
    /\ LET t == [tasks[k] EXCEPT
                    !.cur = 0,
                    !.results = @ \cup
                        {<< tasks[k].cur, IF ok THEN "sent" ELSE "send failed" >>}]
       IN  \E t1 \in IterationNext(t, connected_clients') :
               /\ SameTableOrder(k, t1)
               /\ tasks' = [tasks EXCEPT ![k] =
                                Numbered(t1, SendCalls(tasks) + 1)]
               /\ touched' = touched \cup Touches(t1)
    /\ UNCHANGED << loop, handler, last, gui, codec,
                   stream >>

\* the try/except around "await ws.send(packet)": the send succeeds only on a
\* connection that is still open, and may fail on any; either way a line is
\* logged and the loop goes on
BroadcastSent(k, ok) ==
    /\ k \in DOMAIN tasks
    /\ tasks[k].pc = "sending"
    /\ SendReturnsInOrder(k)
    /\ ok => handler[tasks[k].cur] = "open"
    /\ LET t == [tasks[k] EXCEPT
                    !.cur = 0,
                    !.results = @ \cup
                        {<< tasks[k].cur, IF ok THEN "sent" ELSE "send failed" >>}]
       IN  \E t1 \in IterationNext(t, connected_clients) :
               /\ SameTableOrder(k, t1)
               /\ tasks' = [tasks EXCEPT ![k] =
                                Numbered(t1, SendCalls(tasks) + 1)]
               /\ touched' = touched \cup Touches(t1)
    /\ UNCHANGED << loop, connected_clients, handler, last, gui, codec,
                   stream >>

\* the steps of the server thread's loop that serve connections, with the
\* devices sending messages Inbound[i], i in msgs
ConnectionSteps(msgs) ==
    \/ NewEventLoop
    \/ RunServer
    \/ \E ws \in Sessions : Accept(ws)
    \/ \E ws \in Sessions, i \in msgs, db_ok \in BOOLEAN :
           \E ts_raises \in TsOutcomes[i] : Receive(ws, i, db_ok, ts_raises)
    \/ \E ws \in Sessions,
          exc \in {"ConnectionClosed", "none", "Exception", "CancelledError"} :
           Leave(ws, exc)

BroadcastSteps ==
    \/ \E is_on \in BOOLEAN : send_command(is_on)
    \/ \E k \in 1..MaxBroadcasts : BroadcastStart(k)
    \/ \E k \in 1..MaxBroadcasts, ok \in BOOLEAN : BroadcastSent(k, ok)

\* the messages sent while control requests are broadcast: a sensor report
\* that is stored and one whose timestamp makes process_data raise
BroadcastInbound == {9, 12}

\* connections and control requests
Next == ConnectionSteps(BroadcastInbound) \/ BroadcastSteps

Spec == Init /\ [][Next]_vars

\* connections receiving every kind of message, no control request
NextIngest == ConnectionSteps(DOMAIN Inbound)

SpecIngest == Init /\ [][NextIngest]_vars

(***************************************************************************)
(* The receive loops with the messages queued by the transport: a message  *)
(* arrives on a connection at any time, also while another one is being    *)
(* processed, and "async for message in websocket" takes the next one when *)
(* the loop body has ended.                                                *)
(***************************************************************************)
MaxArrivals == 3

\* the messages that arrive: a heartbeat and a sensor report
OrderInbound == {6, 9}

\* the arrival numbers of the messages of ws not yet processed, oldest first
RECURSIVE Waiting(_, _, _)
Waiting(st, ws, n) ==
    IF n > Len(st.arrived) THEN << >>
    ELSE (IF st.arrived[n].ws = ws /\ \A q \in DOMAIN st.handled : st.handled[q] # n
          THEN << n >> ELSE << >>)
         \o Waiting(st, ws, n + 1)

\* an iteration that takes the message that arrived last
NewestMessage(queue) == queue[Len(queue)]

\* the message "async for message in websocket" yields: the oldest one
NextMessage(queue) == queue[1]

\* the transport delivers message Inbound[i] on connection ws
Arrive(ws, i) ==
    /\ handler[ws] = "open"
    /\ Len(stream.arrived) < MaxArrivals
    /\ stream' = [stream EXCEPT !.arrived = Append(@, [ws |-> ws, msg |-> i])]
    /\ UNCHANGED << loop, connected_clients, handler, tasks, last, touched, gui,
                   codec >>

\* one iteration of the receive loop of ws on the message it yields
ReceiveNext(ws, db_ok) ==
    /\ Waiting(stream, ws, 1) # << >>
    /\ LET n == NextMessage(Waiting(stream, ws, 1))
       IN  /\ \E ts_raises \in TsOutcomes[stream.arrived[n].msg] :
                  ReceiveMessage(ws, stream.arrived[n].msg, db_ok, ts_raises)
           /\ stream' = [stream EXCEPT !.handled = Append(@, n)]

NextOrder ==
    \/ NewEventLoop
    \/ RunServer
    \/ \E ws \in Sessions : Accept(ws)
    \/ \E ws \in Sessions, i \in OrderInbound : Arrive(ws, i)
    \/ \E ws \in Sessions, db_ok \in BOOLEAN : ReceiveNext(ws, db_ok)
    \/ \E ws \in Sessions,
          exc \in {"ConnectionClosed", "none", "Exception", "CancelledError"} :
           Leave(ws, exc)

SpecOrder == Init /\ [][NextOrder]_vars

(***************************************************************************)
(* The frame codec on its own: build_control_packet on a device id and an  *)
(* actuator state, then parse_packet on the bytes it returned.             *)
(***************************************************************************)
CodecHalves == {0, 1, 255, 256, 258, 772, 32768, 43605, 65535}

CodecDeviceIds == [hi : CodecHalves, lo : CodecHalves]

InitCodec ==
    /\ loop = "none"
    /\ connected_clients = {}
    /\ handler = [s \in Sessions |-> "idle"]
    /\ tasks = << >>
    /\ last = Event("init", 0, 0, FALSE, << >>, NoOutcome)
    /\ touched = {}
    /\ gui = "idle"
    /\ stream = NoStream
    /\ \E d \in CodecDeviceIds, on \in BOOLEAN :
           codec = [NoCodec EXCEPT !.stage = "input", !.dev_id = d,
                                   !.led_status = on]

CodecBuild ==
    /\ codec.stage = "input"
    /\ codec' = [codec EXCEPT !.stage = "built",
                              !.packet = build_control_packet(codec.dev_id,
                                                              codec.led_status)]
    /\ UNCHANGED << loop, connected_clients, handler, tasks, last, touched, gui,
                   stream >>

CodecParse ==
    /\ codec.stage = "built"
    /\ codec' = [codec EXCEPT !.stage = "parsed",
                              !.parsed = parse_packet(codec.packet)]
    /\ UNCHANGED << loop, connected_clients, handler, tasks, last, touched, gui,
                   stream >>

NextCodec == CodecBuild \/ CodecParse

SpecCodec == InitCodec /\ [][NextCodec]_vars

(***************************************************************************)
(* The frame codec on the byte strings a device may send: calc_crc and     *)
(* parse_packet applied to short byte strings, to valid frames and to      *)
(* valid frames damaged in one bit, in their length or in their header.    *)
(***************************************************************************)
MaxCrcLen == 3

CrcAlphabet == {0, 1, 85, 128, 255}

\* the byte strings over CrcAlphabet of at most n bytes
RECURSIVE ByteStrings(_)
ByteStrings(n) ==
    IF n = 0 THEN {<< >>}
    ELSE LET shorter == ByteStrings(n - 1)
         IN  shorter \cup {Append(b, x) :
                               b \in {y \in shorter : Len(y) = n - 1},
                               x \in CrcAlphabet}

\* the ASCII string "123456789"
CheckString == << 49, 50, 51, 52, 53, 54, 55, 56, 57 >>

\* a heartbeat, a control frame, a sensor report and a sensor report with an
\* empty payload, each with its correct checksum
ValidFrames ==
    {Inbound[6].data, Inbound[7].data, Inbound[9].data, Inbound[14].data}

\* data with bit n flipped (bit 0 = least significant bit of the first byte)
FlipBit(data, n) ==
    [data EXCEPT ![(n \div 8) + 1] = Xor(@, Pow2(n % 8))]

BitFlips(f) == {FlipBit(f, n) : n \in 0..(8 * Len(f) - 1)}

\* f with bytes appended or cut off
LengthVariants(f) ==
    {f \o << 0 >>, f \o << 0, 0 >>, SubSeq(f, 1, Len(f) - 1),
     SubSeq(f, 1, 12), SubSeq(f, 1, 11), SubSeq(f, 1, 2)}

WrongHeaders == {<< 0, 0 >>, << 170, 85 >>, << 85, 171 >>, << 84, 170 >>,
                 << 255, 255 >>}

\* f with its first two bytes replaced by h
WithHeader(f, h) == h \o Slice(f, 2, Len(f))

DamagedFrames ==
    UNION {LengthVariants(f) : f \in ValidFrames}
    \cup {Corrupt(f) : f \in ValidFrames}

FrameInputs ==
    ByteStrings(MaxCrcLen) \cup {CheckString} \cup ValidFrames
    \cup DamagedFrames
    \cup UNION {BitFlips(f) : f \in ValidFrames}
    \cup {WithHeader(f, h) : f \in ValidFrames \cup DamagedFrames,
                             h \in WrongHeaders}

InitFrames ==
    /\ loop = "none"
    /\ connected_clients = {}
    /\ handler = [s \in Sessions |-> "idle"]
    /\ tasks = << >>
    /\ last = Event("init", 0, 0, FALSE, << >>, NoOutcome)
    /\ touched = {}
    /\ gui = "idle"
    /\ stream = NoStream
    /\ \E f \in FrameInputs :
           codec = [NoCodec EXCEPT !.stage = "received", !.packet = f]

\* IotProtocol.calc_crc(data)
FrameCrc ==
    /\ codec.stage = "received"
    /\ codec' = [codec EXCEPT !.stage = "summed",
                              !.crc = calc_crc(codec.packet)]
    /\ UNCHANGED << loop, connected_clients, handler, tasks, last, touched, gui,
                   stream >>

\* IotProtocol.parse_packet(data)
FrameParse ==
    /\ codec.stage = "received"
    /\ codec' = [codec EXCEPT !.stage = "parsed",
                              !.parsed = parse_packet(codec.packet)]
    /\ UNCHANGED << loop, connected_clients, handler, tasks, last, touched, gui,
                   stream >>

NextFrames == FrameCrc \/ FrameParse

SpecFrames == InitFrames /\ [][NextFrames]_vars

(***************************************************************************)
(* Properties.                                                             *)
(***************************************************************************)
\* C1: a broadcast ends without an iteration error, and when it has ended it
\* has called send on every session that was registered when it began and
\* is still open, whatever connections were accepted or closed meanwhile.
C1_StableSnapshot ==
    \A k \in DOMAIN tasks :
        /\ tasks[k].error = "none"
        /\ tasks[k].pc = "done" =>
               \A ws \in tasks[k].start :
                   handler[ws] = "open" => ws \in Attempted(tasks[k])

\* C2: once a send of a broadcast has raised (and was logged), no exception
\* leaves broadcast_command and, when the broadcast has ended, send was
\* called on every session of the broadcast that is still registered.
C2_SendFailureIsolated ==
    \A k \in DOMAIN tasks :
        (\E r \in tasks[k].results : r[2] = "send failed") =>
            /\ tasks[k].error = "none"
            /\ tasks[k].pc \in {"done", "failed"} =>
                   \A ws \in tasks[k].start \cap connected_clients :
                       ws \in Attempted(tasks[k])

\* C3: a session whose handler has left the receive loop is not in
\* connected_clients, and no broadcast calls send on a session that had
\* closed before the broadcast began.
C3_ClosedSessionNotServed ==
    /\ \A ws \in Sessions : handler[ws] = "done" => ws \notin connected_clients
    /\ \A k \in DOMAIN tasks :
           \A x \in tasks[k].sends : x.ws \notin tasks[k].gone

\* a broadcast that began after a session had closed has sent to another one
C3_Witness ==
    \E k \in DOMAIN tasks :
        /\ tasks[k].gone # {}
        /\ tasks[k].pc = "done"
        /\ tasks[k].sends # {}

RejectReasons ==
    {"Length too short", "Invalid Header", "Length Mismatch", "CRC Error"}

\* C4: after a binary message that parse_packet rejects, process_data was not
\* called, exactly one line was logged, holding the reason and the hex of
\* the raw bytes, and the session is still registered and in its receive
\* loop.
C4_RejectedFrameDiscarded ==
    (/\ last.ev = "recv"
     /\ Inbound[last.msg].binary
     /\ ~parse_packet(Inbound[last.msg].data).ok) =>
        /\ ~last.called
        /\ last.out = NoOutcome
        /\ Len(last.logs) = 1
        /\ last.logs[1][1] = "parse failed"
        /\ last.logs[1][2][1] \in RejectReasons
        /\ last.logs[1][3] = BytesHex(Inbound[last.msg].data)
        /\ last.ws \in connected_clients
        /\ handler[last.ws] = "open"

\* a frame with a wrong checksum was received and logged
C4_Witness ==
    /\ last.ev = "recv"
    /\ Len(last.logs) = 1
    /\ last.logs[1][1] = "parse failed"
    /\ last.logs[1][2][1] = "CRC Error"

\* C5: after any inbound message has been processed, its session is still in
\* its receive loop and still registered.
C5_MessageNeverEndsSession ==
    last.ev = "recv" =>
        /\ handler[last.ws] = "open"
        /\ last.ws \in connected_clients

\* C6: after a sensor report for which save_sensor_data returned
\* (False, reason), the reason was logged, (temperature, humidity, light) of
\* the report went to the display, and the session is still registered and
\* in its receive loop.
C6_SinkFailureNotFatal ==
    (/\ last.ev = "recv"
     /\ last.out.answer # << >>
     /\ ~last.out.answer[1]) =>
        LET sd == decode_sensor_payload(ParseTable[last.msg].payload)
        IN  /\ \E j \in DOMAIN last.logs :
                   last.logs[j] = << "DB error", last.out.answer[2] >>
            /\ last.out.display = << << sd.temp, sd.hum, sd.light >> >>
            /\ last.ws \in connected_clients
            /\ handler[last.ws] = "open"

\* the sink has reported a failure for a report with temperature 25.3
C6_Witness ==
    /\ last.ev = "recv"
    /\ last.out.answer = << FALSE, "sqlite3.Error" >>
    /\ Len(last.out.display) = 1
    /\ last.out.display[1][1] = FloatVal("num", FALSE, 253, 0, 0)

\* the frames build_control_packet returns for device 0x01020304
ControlOn == << 85, 170, 18, 128, 1, 4, 3, 2, 1, 1, 0, 1, 38, 142 >>

ControlOff == << 85, 170, 18, 128, 1, 4, 3, 2, 1, 1, 0, 0, 231, 78 >>

\* C7: a broadcast that found the registry empty has logged the warning and
\* called no send; one that found it non-empty has built one frame with
\* command 0x80, sequence 0x01 and the one payload byte 1 (on) or 0 (off),
\* and every send it called carries exactly these bytes.
C7_OneFrameForAll ==
    \A k \in DOMAIN tasks :
        LET t == tasks[k]
        IN  t.pc # "queued" =>
                IF t.start = {}
                THEN t.warned /\ t.sends = {} /\ t.pc = "done"
                ELSE /\ ~t.warned
                     /\ t.packet = IF t.led_status THEN ControlOn ELSE ControlOff
                     /\ t.packet[4] = CMD_LED_CONTROL
                     /\ t.packet[5] = 1
                     /\ UnpackU16(Slice(t.packet, 9, 11)) = 1
                     /\ \A x \in t.sends : x.data = t.packet

\* a broadcast has sent its frame to two sessions
C7_Witness ==
    \E k \in DOMAIN tasks :
        /\ tasks[k].pc = "done"
        /\ Cardinality(tasks[k].sends) = 2
        /\ \A x \in tasks[k].sends : x.data = ControlOn

\* C8: every read or change of connected_clients and every send on a session
\* is performed by the loop's thread, and a control request of the GUI
\* thread becomes a task of the loop.
C8_LoopThreadOnly ==
    /\ \A x \in touched : x[1] = "loop"
    /\ \A k \in DOMAIN tasks : tasks[k].thread = "loop"

\* a request of the GUI thread has led to a send
C8_Witness ==
    /\ gui = "submitted"
    /\ << "loop", "socket" >> \in touched

\* C9: after a sensor report whose payload decodes (and whose processing did
\* not raise), the call save_sensor_data accepted carries the light value of
\* the report, and (temperature, humidity, light) went to the display.
C9_LightReachesSink ==
    (/\ last.ev = "recv"
     /\ last.called
     /\ ParseTable[last.msg].cmd = CMD_SENSOR_DATA
     /\ Len(ParseTable[last.msg].payload) = 20
     /\ ~last.out.raised) =>
        LET sd == decode_sensor_payload(ParseTable[last.msg].payload)
            accepted == last.out.saves[Len(last.out.saves)]
        IN  /\ Len(accepted) = 5
            /\ accepted[5] = sd.light
            /\ last.out.display = << << sd.temp, sd.hum, sd.light >> >>

\* C10: parse_packet accepts the frame build_control_packet returns and gives
\* back command 0x80, sequence 0x01, the device id and the payload byte; the
\* checksum computed over the frame equals the one it carries.
C10_ControlRoundTrip ==
    codec.stage = "parsed" =>
        /\ codec.parsed.ok
        /\ codec.parsed.cmd = 128
        /\ codec.parsed.seq = 1
        /\ codec.parsed.dev_id = codec.dev_id
        /\ codec.parsed.payload = << IF codec.led_status THEN 1 ELSE 0 >>
        /\ calc_crc(Slice(codec.packet, 0, Len(codec.packet) - 2))
               = UnpackU16(Slice(codec.packet, Len(codec.packet) - 2,
                                 Len(codec.packet)))

\* the frame for device 0x01020304, actuator on, has been parsed
C10_Witness ==
    /\ codec.stage = "parsed"
    /\ codec.dev_id = [hi |-> 258, lo |-> 772]
    /\ codec.led_status
    /\ codec.parsed.payload = << 1 >>


(***************************************************************************)
(* CRC-16/Modbus as a shift register of 16 bits (least significant first): *)
(* the register starts with all bits set; each byte is XORed into the low  *)
(* 8 bits; then 8 times the register is shifted right and, when the bit    *)
(* shifted out was 1, XORed with 0xA001 (bits 0, 13 and 15).  Between two  *)
(* steps the register is kept as the number its bits spell.                *)
(***************************************************************************)
RefBits(v, n) == [i \in 1..n |-> (v \div 2^(i - 1)) % 2]

RefXor(a, b) == [i \in 1..Len(a) |-> IF i <= Len(b) THEN (a[i] + b[i]) % 2 ELSE a[i]]

RefPoly == [i \in 1..16 |-> IF i \in {1, 14, 16} THEN 1 ELSE 0]

RECURSIVE RefSum(_, _)
RefSum(reg, i) ==
    IF i > Len(reg) THEN 0 ELSE reg[i] * 2^(i - 1) + RefSum(reg, i + 1)

RefValue(reg) == RefSum(reg, 1)

\* one shift of the register v
RefStep(v) ==
    LET reg     == RefBits(v, 16)
        shifted == [i \in 1..16 |-> IF i < 16 THEN reg[i + 1] ELSE 0]
    IN  RefValue(IF reg[1] = 1 THEN RefXor(shifted, RefPoly) ELSE shifted)

RECURSIVE RefShift(_, _)
RefShift(v, n) ==
    IF n = 0 THEN v
    ELSE LET next == RefStep(v)
         IN  IF next \in 0..65535 THEN RefShift(next, n - 1) ELSE next

RECURSIVE RefCrc(_, _)
RefCrc(v, data) ==
    IF data = << >> THEN v
    ELSE IF Len(data) = 1
    THEN LET mixed == RefValue(RefXor(RefBits(v, 16), RefBits(data[1], 8)))
         IN  IF mixed \in 0..65535 THEN RefShift(mixed, 8) ELSE mixed
    ELSE LET mid  == Len(data) \div 2
             next == RefCrc(v, SubSeq(data, 1, mid))
         IN  IF next \in 0..65535
             THEN RefCrc(next, SubSeq(data, mid + 1, Len(data)))
             ELSE next

\* C11: calc_crc returns the CRC-16/Modbus value of every byte string, a
\* value in 0..0xFFFF, and 0x40BF for the single byte 0x00.
C11_CrcIsModbus ==
    codec.stage = "summed" =>
        /\ codec.crc = RefCrc(RefValue([i \in 1..16 |-> 1]), codec.packet)
        /\ codec.crc \in 0..65535
        /\ codec.packet = << 0 >> => codec.crc = 16575

\* calc_crc has returned 0x4B37 for "123456789"
C11_Witness ==
    /\ codec.stage = "summed"
    /\ codec.packet = CheckString
    /\ codec.crc = 19255

\* the header and the payload length a byte string carries
HeaderField(data) == data[1] + 256 * data[2]

DeclaredLength(data) == data[10] + 256 * data[11]

\* C12: parse_packet rejects every byte string of at least 13 bytes whose
\* first two bytes (little-endian) are not 0xAA55 with the header error,
\* whatever the other bytes are.
C12_WrongHeaderRejected ==
    (/\ codec.stage = "parsed"
     /\ Len(codec.packet) >= 13
     /\ HeaderField(codec.packet) # PROTOCOL_HEADER) =>
        /\ ~codec.parsed.ok
        /\ codec.parsed.msg[1] = "Invalid Header"

\* a heartbeat frame with the header bytes swapped was rejected for its header
C12_Witness ==
    /\ codec.stage = "parsed"
    /\ codec.packet = WithHeader(Inbound[6].data, << 170, 85 >>)
    /\ codec.parsed.msg[1] = "Invalid Header"

\* C12 as stated: parse_packet rejects every byte string whose first two
\* bytes are not 0xAA55 with the header error, whatever follows them.
C12_AnyWrongHeaderRejected ==
    (/\ codec.stage = "parsed"
     /\ Len(codec.packet) >= 2
     /\ HeaderField(codec.packet) # PROTOCOL_HEADER) =>
        /\ ~codec.parsed.ok
        /\ codec.parsed.msg[1] = "Invalid Header"

\* C13: parse_packet rejects every byte string of at least 13 bytes with the
\* header 0xAA55 whose length is not 11 + payloadLength + 2 with the length
\* error, which reports the real and the expected length.
C13_LengthMismatchRejected ==
    (/\ codec.stage = "parsed"
     /\ Len(codec.packet) >= 13
     /\ HeaderField(codec.packet) = PROTOCOL_HEADER
     /\ Len(codec.packet) # 11 + DeclaredLength(codec.packet) + 2) =>
        /\ ~codec.parsed.ok
        /\ codec.parsed.msg = << "Length Mismatch", Len(codec.packet),
                                 11 + DeclaredLength(codec.packet) + 2 >>

\* a heartbeat frame followed by one more byte was rejected for its length
C13_Witness ==
    /\ codec.stage = "parsed"
    /\ codec.packet = Inbound[6].data \o << 0 >>
    /\ codec.parsed.msg[1] = "Length Mismatch"

\* C13 as stated: parse_packet rejects every byte string whose length is not
\* 11 + payloadLength + 2 with the length error.
C13_AnyLengthMismatchRejected ==
    (/\ codec.stage = "parsed"
     /\ Len(codec.packet) >= 11
     /\ Len(codec.packet) # 11 + DeclaredLength(codec.packet) + 2) =>
        /\ ~codec.parsed.ok
        /\ codec.parsed.msg[1] = "Length Mismatch"

\* the valid frames with one bit flipped: any bit, a bit of the header field
\* (bytes 0-1), a bit of the payloadLength field (bytes 9-10)
AllBitFlips == UNION {BitFlips(f) : f \in ValidFrames}

HeaderBitFlips == {FlipBit(f, n) : f \in ValidFrames, n \in 0..15}

LengthBitFlips == {FlipBit(f, n) : f \in ValidFrames, n \in 72..87}

\* C14: parse_packet rejects every valid frame with one bit flipped: with
\* the header error when the bit is in the header field, with the length
\* error when it is in the payloadLength field, and with the CRC error when
\* it is anywhere else (version, command, sequence, deviceId, payload,
\* checksum).
C14_BitFlipRejected ==
    (codec.stage = "parsed" /\ codec.packet \in AllBitFlips) =>
        /\ ~codec.parsed.ok
        /\ codec.parsed.msg[1] =
               IF codec.packet \in HeaderBitFlips THEN "Invalid Header"
               ELSE IF codec.packet \in LengthBitFlips THEN "Length Mismatch"
               ELSE "CRC Error"

\* a sensor report with one payload bit flipped was rejected for its checksum
C14_Witness ==
    /\ codec.stage = "parsed"
    /\ codec.packet = FlipBit(Inbound[9].data, 100)
    /\ codec.parsed.msg[1] = "CRC Error"

\* C14 as stated: parse_packet rejects every valid frame with one bit flipped
\* and the error it reports is the CRC error.
C14_AnyBitFlipIsCrcError ==
    (codec.stage = "parsed" /\ codec.packet \in AllBitFlips) =>
        /\ ~codec.parsed.ok
        /\ codec.parsed.msg[1] = "CRC Error"

\* C15: after a text message, exactly one line was logged, saying that the
\* text was ignored; the message was not parsed as a frame, process_data was
\* not called, no sink was called, and the session is still registered and
\* in its receive loop.
C15_TextIgnored ==
    (last.ev = "recv" /\ ~Inbound[last.msg].binary) =>
        /\ last.logs = << << "text ignored" >> >>
        /\ ~last.called
        /\ last.out = NoOutcome
        /\ last.ws \in connected_clients
        /\ handler[last.ws] = "open"

\* the second session has received a text message
C15_Witness ==
    /\ last.ev = "recv"
    /\ last.ws = 2
    /\ ~Inbound[last.msg].binary
    /\ last.logs = << << "text ignored" >> >>

\* C17: after a frame that parses and whose command is neither heartbeat nor
\* sensor report, exactly one line was logged, no sink was called, no
\* exception left process_data, and the session is still registered.
C17_UnknownCommandLogged ==
    (/\ last.ev = "recv"
     /\ last.called
     /\ ParseTable[last.msg].cmd \notin {CMD_HEARTBEAT, CMD_SENSOR_DATA}) =>
        /\ Len(last.logs) = 1
        /\ last.out.saves = << >>
        /\ last.out.display = << >>
        /\ ~last.out.raised
        /\ last.ws \in connected_clients

\* C18: save_sensor_data and the display callback are called only for a
\* sensor report with a 20-byte payload; a heartbeat logs one line with the
\* device id and nothing else; a sensor report with another payload length
\* logs one line with that length and calls no sink.
C18_SinksOnlyForSensorReports ==
    (last.ev = "recv" /\ last.called) =>
        LET r == ParseTable[last.msg]
            sunk == \/ last.out.saves # << >>
                    \/ last.out.rows # << >>
                    \/ last.out.display # << >>
        IN  /\ sunk => r.cmd = CMD_SENSOR_DATA /\ Len(r.payload) = 20
            /\ r.cmd = CMD_HEARTBEAT =>
                   /\ last.logs = << << "heartbeat", HexU32(r.dev_id) >> >>
                   /\ ~last.out.raised
            /\ (r.cmd = CMD_SENSOR_DATA /\ Len(r.payload) # 20) =>
                   /\ last.logs = << << "payload decode failed", Len(r.payload) >> >>
                   /\ ~last.out.raised
                   /\ handler[last.ws] = "open"

\* a sensor report with the 16-byte payload was logged and dropped
C18_Witness ==
    /\ last.ev = "recv"
    /\ last.called
    /\ Len(ParseTable[last.msg].payload) = 16
    /\ last.logs = << << "payload decode failed", 16 >> >>

\* C19: connected_clients is exactly the set of connections whose ws_handler
\* has started and has not finished: a session is registered from its
\* accept on, no step of broadcast_command adds or removes one, and every
\* way out of the handler removes it.
C19_RegistryIsOpenHandlers ==
    connected_clients = {ws \in Sessions : handler[ws] = "open"}

\* a send of a broadcast has failed on a session that is still open and
\* registered, while the handler of another session has finished
C19_Witness ==
    /\ \E k \in DOMAIN tasks : \E r \in tasks[k].results :
           /\ r[2] = "send failed"
           /\ handler[r[1]] = "open"
           /\ r[1] \in connected_clients
    /\ \E ws \in Sessions : handler[ws] = "done"

\* C16: the messages of one session are processed in the order of their
\* arrival, none is skipped or processed twice, and each is processed in one
\* step that ends before the next message is taken (the latest receive step
\* holds the complete outcome of the message processed last); messages of
\* different sessions are not ordered.
C16_SessionOrder ==
    /\ \A q \in DOMAIN stream.handled :
           LET n == stream.handled[q]
           IN  /\ n \in DOMAIN stream.arrived
               /\ \A p \in DOMAIN stream.handled : p # q => stream.handled[p] # n
               /\ \A m \in 1..(n - 1) :
                      stream.arrived[m].ws = stream.arrived[n].ws =>
                          \E p \in 1..(q - 1) : stream.handled[p] = m
    /\ (last.ev = "recv" /\ stream.handled # << >>) =>
           LET n == stream.handled[Len(stream.handled)]
           IN  /\ last.ws = stream.arrived[n].ws
               /\ last.msg = stream.arrived[n].msg
               /\ last.called

\* two messages of one session were processed in their order, and a message
\* of another session that arrived between them was processed before both
C16_Witness ==
    /\ Len(stream.arrived) = 3
    /\ stream.arrived[1].ws = stream.arrived[3].ws
    /\ stream.arrived[2].ws # stream.arrived[1].ws
    /\ stream.arrived[1].msg # stream.arrived[3].msg
    /\ stream.handled = << 2, 1, 3 >>

\* the number of the call in which task t called send on session ws
CallNumber(t, ws) ==
    (CHOOSE x \in {t.order[i] : i \in DOMAIN t.order} : x[1] = ws)[2]

\* two control requests were submitted one after the other, both broadcasts
\* have ended, no send failed, and the registry is the one both found and
\* has not changed since
TwoRequestsServed ==
    /\ Len(tasks) = 2
    /\ \A k \in {1, 2} :
           /\ tasks[k].pc = "done"
           /\ tasks[k].start = connected_clients
           /\ tasks[k].start # {}
           /\ tasks[k].version = RegistryVersion(handler)
           /\ \A r \in tasks[k].results : r[2] = "sent"

=============================================================================
